---- MODULE Spec2Model ----
(***************************************************************************)
(* Model of the christmas-tree application: the photo selection state      *)
(* machine (TreeSystem click effect, AppContent effect, PhotoModal close)  *)
(* and the texture cache of TreeSystem (loadTextureWithCache and the       *)
(* PolaroidPhoto load effect).                                             *)
(*                                                                         *)
(* Units.  Date.now() and photoOpenTimeRef are in milliseconds.  A pointer *)
(* is a pair <<px, py>> in two-hundredths of the screen fraction           *)
(* (pointer.x = px / 200); normalized device coordinates and projected     *)
(* screen positions are in hundredths (ndc = n / 100), so that             *)
(* pointer.x * 2 - 1 is exactly px - 100.  Distances are compared by their *)
(* squares, which orders them as Math.hypot does.                          *)
(***************************************************************************)
EXTENDS Integers, Naturals, Sequences, FiniteSets, TLC

\* ------------------------------------------------------------------ bounds
NumPhotos == 2
MaxClicks == 3
MaxNow == 14500
NumInstances == 3
MaxLoads == 5
MaxTicks == 3
NumParticles == 1
NumLights == 1
NumOrnaments == 1
HoldFrames == 300
SettleFrames == 230
ProbeSpan == 60
RoundingUnit == 1
PolarRounding == 5

\* ------------------------------------------------------- program constants
LOCK_MS == 3000
SELECTION_THRESHOLD == 5
LOAD_BATCH == 2

\* A JavaScript number of the morph is kept as an integer count of millionths
\* (ONE is 1.0), every product rounded to the nearest millionth, as an IEEE
\* product is rounded to the nearest double.  Split is the square root of ONE:
\* Mul works on the halves of its arguments so that no intermediate exceeds
\* 2^31.
ONE == 1000 * 1000
Split == 1000

Null == <<"null">>

PhotoIdx == 0 .. (NumPhotos - 1)
PrimaryUrl(i) == <<"/photos", i>>
FallbackUrl(i) == <<"picsum", i + 100>>
Urls == {PrimaryUrl(i) : i \in PhotoIdx} \cup {FallbackUrl(i) : i \in PhotoIdx}

\* inputs of the environment, small sets
Pointers == {<<100, 100>>, <<160, 100>>}
ScreenPoints == {[x |-> 0, y |-> 0, z |-> 0], [x |-> 3, y |-> 0, z |-> 0],
                 [x |-> 0, y |-> 0, z |-> 1]}
Elements == {"IMG", "photo-modal-backdrop", "DIV", "none"}
TimeSteps == {1500, 3001}

VARIABLES
  state,              \* App: 'CHAOS' | 'FORMED'
  pointer,            \* App: PointerCoords | null
  clickTrigger,       \* App: number
  selectedPhotoUrl,   \* App: string | null
  photoOpenTimeRef,   \* TreeSystem: useRef<number>(0)
  now,                \* Date.now()
  photoObjects,       \* TreeSystem: useState([]), a sequence of photo indices
  refCurrent,         \* photo indices whose obj.ref.current is attached
  screenPos,          \* photo index -> its world position projected by the camera
  rendered,           \* context values of the last render, with the changed dependencies
  effects,            \* effects of the last render that have not run yet
  loadedCount,        \* TreeSystem: useState(0)
  textureCache,       \* url -> texture, 0 when the map has no entry
  loadingPromises,    \* url -> promise id, 0 when the map has no entry
  promises,           \* promise id -> [url, status], every promise given to loader.load
  loaderCalls,        \* url -> number of loader.load calls
  cacheWrites,        \* url -> number of textureCache.set calls
  instPhoto,          \* PolaroidPhoto instance -> photo index of its props
  loadStatus,         \* PolaroidPhoto instance -> 'pending' | 'loading' | 'loaded' | 'error'
  texture,            \* PolaroidPhoto instance -> texture, 0 for null
  awaiting,           \* PolaroidPhoto instance -> the promise its chain was given
  requests,           \* PolaroidPhoto instance -> number of loadTextureWithCache calls
  rotationSpeed,      \* App: number
  rotationBoost,      \* App: number
  progress,           \* TreeSystem: useRef(0), the morph progress
  treeRotation,       \* TreeSystem: useRef(0), the accumulated rotation angle
  ornProgress,        \* CrystalOrnaments: progress = useRef(0)
  ornRotation,        \* CrystalOrnaments: treeRotation = useRef(0)
  panOffset,          \* App: useState({ x: 0, y: 0 })
  currentPan,         \* TreeSystem: currentPan = useRef({ x: 0, y: 0 })
  ornPan,             \* CrystalOrnaments: currentPan = useRef({ x: 0, y: 0 })
  ticks,              \* number of frames rendered so far
  frameDelta,         \* the delta of the last frame
  ease,               \* TreeSystem useFrame: const ease of the last frame
  ornEase,            \* CrystalOrnaments useFrame: const ease of the last frame
  foliageData,        \* TreeSystem useMemo: chaos and tree points of the foliage
  lightsData,         \* TreeSystem useMemo: chaos and tree points of the lights
  photosData,         \* TreeSystem useMemo: ParticleData of every photo
  ornaments,          \* CrystalOrnaments useMemo: chaosPos and treeCyl of every ornament
  cylinders,          \* layout point -> the tr, tAngle (cr, cAngle) a frame computes from it
  positions,          \* the position attribute of the foliage points
  lightPos,           \* the positions in the instance matrices of the lights
  photoXform,         \* photo index -> position and rotation of its group
  ornPos,             \* the positions of the ornament meshes
  trunk               \* the scale, position.y and rotation.y of the trunk mesh

selVars == <<state, pointer, clickTrigger, selectedPhotoUrl, photoOpenTimeRef, now,
             photoObjects, refCurrent, screenPos, rendered, effects>>
loadVars == <<loadedCount, textureCache, loadingPromises, promises, loaderCalls,
              cacheWrites, instPhoto, loadStatus, texture, awaiting, requests>>
layoutVars == <<foliageData, lightsData, photosData, ornaments, cylinders>>
sceneVars == <<ease, ornEase, positions, lightPos, photoXform, ornPos, trunk>>
panVars == <<panOffset, currentPan, ornPan>>
morphVars == <<rotationSpeed, rotationBoost, progress, treeRotation, ornProgress,
               ornRotation, ticks, frameDelta, layoutVars, sceneVars, panVars>>
vars == <<selVars, loadVars, morphVars>>

Instances == 1 .. NumInstances

\* ------------------------------------------------------- number arithmetic

\* The primitives that read an argument more than once are functions on the
\* integers: an argument is a value by the time the body reads it.

\* the whole part of (a * b + c) / ONE for 0 <= c < ONE
MulAdd[a \in Int, b \in Int, c \in Int] ==
  LET ah == a \div Split
      al == a % Split
      bh == b \div Split
      bl == b % Split
      m  == ah * bl + al * bh
  IN ah * bh + (m \div Split) + (((m % Split) * Split + al * bl + c) \div ONE)

\* a * b, rounded to the nearest
Mul(a, b) == MulAdd[a, b, ONE \div 2]

\* Math.exp(-u) for u >= 0: the Taylor polynomial on [0, 1/2], squaring above
ExpNeg[u \in Int] ==
  IF u > ONE \div 2
  THEN LET Square[h \in Int] == Mul(h, h) IN Square[ExpNeg[u \div 2]]
  ELSE LET u2 == Mul(u, u)
           u3 == Mul(u2, u)
           u4 == Mul(u3, u)
           u5 == Mul(u4, u)
           u6 == Mul(u5, u)
       IN ONE - u + (u2 \div 2) - (u3 \div 6) + (u4 \div 24) - (u5 \div 120) + (u6 \div 720)

\* THREE.MathUtils.lerp(x, y, t) = (1 - t) * x + t * y
Lerp(x, y, t) == Mul(ONE - t, x) + Mul(t, y)

\* THREE.MathUtils.damp(x, y, lambda, dt) = lerp(x, y, 1 - Math.exp(-lambda * dt))
DampOvershoot(x, y, lambda, dt) == Lerp(x, y, ONE + ExpNeg[Mul(lambda, dt)])

Damp(x, y, lambda, dt) == Lerp(x, y, ONE - ExpNeg[Mul(lambda, dt)])

\* Math.PI
PI == 3141593

Abs(a) == IF a < 0 THEN -a ELSE a

\* a / n for a small whole number n
DivBy(a, n) == (2 * a + n) \div (2 * n)

\* Math.cos and Math.sin on [0, PI / 2], by their Taylor polynomials
CosQ[x \in Int] ==
  LET x2 == Mul(x, x)
      x4 == Mul(x2, x2)
      x6 == Mul(x4, x2)
      x8 == Mul(x6, x2)
      x10 == Mul(x8, x2)
      x12 == Mul(x10, x2)
  IN ONE - DivBy(x2, 2) + DivBy(x4, 24) - DivBy(x6, 720) + DivBy(x8, 40320)
       - DivBy(x10, 3628800) + DivBy(x12, 479001600)

SinQ[x \in Int] ==
  LET x2 == Mul(x, x)
      x3 == Mul(x2, x)
      x5 == Mul(x3, x2)
      x7 == Mul(x5, x2)
      x9 == Mul(x7, x2)
      x11 == Mul(x9, x2)
  IN x - DivBy(x3, 6) + DivBy(x5, 120) - DivBy(x7, 5040) + DivBy(x9, 362880)
       - DivBy(x11, 39916800)

\* Math.cos(a) and Math.sin(a): the angle is reduced to one turn, then to the
\* first quadrant
Cos[a \in Int] ==
  LET r == a % (2 * PI)
  IN IF 2 * r <= PI THEN CosQ[r]
     ELSE IF r <= PI THEN -CosQ[PI - r]
     ELSE IF 2 * r <= 3 * PI THEN -CosQ[r - PI]
     ELSE CosQ[2 * PI - r]

Sin[a \in Int] ==
  LET r == a % (2 * PI)
  IN IF 2 * r <= PI THEN SinQ[r]
     ELSE IF r <= PI THEN SinQ[PI - r]
     ELSE IF 2 * r <= 3 * PI THEN -SinQ[r - PI]
     ELSE -SinQ[2 * PI - r]

\* Math.sqrt(v): the least r with r * r >= v, by bisection
SqrtBetween[lo \in Int, hi \in Int, v \in Int] ==
  IF hi - lo <= 1 THEN hi
  ELSE LET mid == (lo + hi) \div 2
       IN IF MulAdd[mid, mid, 0] < v THEN SqrtBetween[mid, hi, v] ELSE SqrtBetween[lo, mid, v]

Sqrt(v) == SqrtBetween[-1, 46 * ONE, v]

\* Math.atan2(z, x): the angle a of the first quadrant with |z| cos a = |x| sin a,
\* by bisection, carried to the quadrant of (x, z); atan2(0, 0) is 0
AtanBetween[lo \in Int, hi \in Int, z \in Int, x \in Int] ==
  IF hi - lo <= 1 THEN lo
  ELSE LET mid == (lo + hi) \div 2
       IN IF Mul(z, CosQ[mid]) >= Mul(x, SinQ[mid])
          THEN AtanBetween[mid, hi, z, x] ELSE AtanBetween[lo, mid, z, x]

Atan2(z, x) ==
  LET a == IF z = 0 THEN 0
           ELSE IF x = 0 THEN PI \div 2
           ELSE AtanBetween[0, (PI \div 2) + 1, Abs(z), Abs(x)]
  IN IF x >= 0 THEN (IF z >= 0 THEN a ELSE -a)
     ELSE (IF z >= 0 THEN PI - a ELSE a - PI)

\* p * p * (3 - 2 * p)
EaseQuadratic(p) == Mul(p, p)

Ease(p) == Mul(Mul(p, p), 3 * ONE - 2 * p)

\* a / b for 0 <= a < b <= 2, the whole part of the quotient in millionths
Div(a, b) ==
  ((a * Split) \div b) * Split + ((((a * Split) % b) * Split) \div b)

\* THREE.MathUtils.smoothstep(x, min, max)
Smoothstep(x, min, max) ==
  IF x <= min THEN 0
  ELSE IF x >= max THEN ONE
  ELSE Ease(Div(x - min, max - min))

\* ----------------------------------------------------------------- layouts

\* the decimal literal n / d
Dec(n, d) == (n * ONE) \div d

\* values of Math.random()
Randoms == {Dec(1, 4), Dec(3, 4)}

ParticleIdx == 0 .. (NumParticles - 1)
LightIdx == 0 .. (NumLights - 1)
OrnamentIdx == 0 .. (NumOrnaments - 1)

Point(px, py, pz) == [x |-> px, y |-> py, z |-> pz]

\* random.inSphere(buffer, { radius }): a point inside the sphere
InSphere(radius, rnd) ==
  Point(Mul(radius, rnd) \div 2, -(Mul(radius, rnd) \div 2), Mul(radius, Dec(1, 2)))

\* the Fibonacci sphere of the chaos layouts: cos(phi) = 1 - 2 * (i + 0.5) / count,
\* theta = PI * (1 + sqrt(5)) * (i + 0.5), the y axis flattened
FibonacciPoint(i, count, radius, flatten) ==
  LET cosPhi == ONE - DivBy((2 * i + 1) * ONE, count)
      sinPhi == Sqrt(ONE - Mul(cosPhi, cosPhi))
      theta == Mul(Mul(PI, ONE + Sqrt(5 * ONE)), Dec(2 * i + 1, 2))
  IN Point(Mul(Mul(radius, sinPhi), Cos[theta]),
           Mul(Mul(Mul(radius, sinPhi), Sin[theta]), flatten),
           Mul(radius, cosPhi))

\* foliage: h = random * 14, coneRadius = (14 - h) * 0.45,
\* angle = h * 3.0 + random * PI * 2
FoliageTree(rnd) ==
  LET h == Mul(rnd, 14 * ONE)
      coneRadius == Mul(14 * ONE - h, Dec(45, 100))
      angle == Mul(h, 3 * ONE) + Mul(rnd, PI) * 2
  IN Point(Mul(Cos[angle], coneRadius), h - 6 * ONE, Mul(Sin[angle], coneRadius))

GenFoliage(particleCount, rnd) ==
  [chaos |-> [k \in 0 .. (particleCount - 1) |-> InSphere(18 * ONE, rnd)],
   tree |-> [k \in 0 .. (particleCount - 1) |-> FoliageTree(rnd)]]

\* lights: t = i / lightCount, h = t * 13, coneRadius = (14 - h) * 0.48,
\* angle = t * PI * 25
LightTree(i, lightCount) ==
  LET t == DivBy(i * ONE, lightCount)
      h == Mul(t, 13 * ONE)
      coneRadius == Mul(14 * ONE - h, Dec(48, 100))
      angle == Mul(t, PI) * 25
  IN Point(Mul(Cos[angle], coneRadius), h - 6 * ONE, Mul(Sin[angle], coneRadius))

GenLightsLong(lightCount, rnd) ==
  [chaos |-> [k \in 0 .. lightCount |-> InSphere(20 * ONE, rnd)],
   tree |-> [k \in 0 .. (lightCount - 1) |-> LightTree(k, lightCount)],
   count |-> lightCount]

GenLights(lightCount, rnd) ==
  [chaos |-> [k \in 0 .. (lightCount - 1) |-> InSphere(20 * ONE, rnd)],
   tree |-> [k \in 0 .. (lightCount - 1) |-> LightTree(k, lightCount)],
   count |-> lightCount]

\* photos: t = i / (photoCount - 1), h = t * 14 - 7,
\* radius = (7 - (h + 7)) * 0.4 + 1.5, angle = t * PI * 10
PhotoSpiral(i, photoCount) ==
  LET t == DivBy(i * ONE, photoCount - 1)
      h == Mul(t, 14 * ONE) - 7 * ONE
  IN [h |-> h,
      radius |-> Mul(7 * ONE - (h + 7 * ONE), Dec(4, 10)) + Dec(15, 10),
      angle |-> Mul(t, PI) * 10]

GenPhoto(i, photoCount, rnd) ==
  LET sp == PhotoSpiral(i, photoCount)
  IN [chaosPos |-> FibonacciPoint(i, photoCount, 12 * ONE + Mul(rnd, 4 * ONE), Dec(6, 10)),
      treePos |-> Point(Mul(Cos[sp.angle], sp.radius), sp.h, Mul(Sin[sp.angle], sp.radius)),
      chaosRot |-> Point(Mul(rnd - Dec(1, 2), Dec(2, 10)), Mul(rnd - Dec(1, 2), Dec(2, 10)),
                         Mul(rnd - Dec(1, 2), Dec(1, 10))),
      treeRot |-> Point(0, -sp.angle + PI \div 2, 0)]

GenPhotosInclusive(photoCount, rnd) ==
  [i \in 0 .. photoCount |-> GenPhoto(i, photoCount + 2, rnd)]

GenPhotos(photoCount, rnd) ==
  [i \in 0 .. (photoCount - 1) |-> GenPhoto(i, photoCount, rnd)]

\* ornaments: t = i / count, h = t * 11 - 5.5, r = (6 - (h + 5.5)) * 0.5 + 0.5,
\* angle = t * PI * 13
GenOrnament(i, count, rnd) ==
  LET t == DivBy(i * ONE, count)
      h == Mul(t, 11 * ONE) - Dec(55, 10)
  IN [chaosPos |-> FibonacciPoint(i, count, 12 * ONE + Mul(rnd, 8 * ONE), Dec(7, 10)),
      treeCyl |-> [h |-> h,
                   r |-> Mul(6 * ONE - (h + Dec(55, 10)), Dec(5, 10)) + Dec(5, 10),
                   angle |-> Mul(t, PI) * 13]]

GenOrnaments(count, rnd) == [i \in 0 .. (count - 1) |-> GenOrnament(i, count, rnd)]

\* the useMemo results of TreeSystem and CrystalOrnaments for given counts of
\* the populations
GenLayout(counts, rnd) ==
  [foliage |-> GenFoliage(counts.foliage, rnd), lights |-> GenLights(counts.lights, rnd),
   photos |-> GenPhotos(counts.photos, rnd), ornaments |-> GenOrnaments(counts.ornaments, rnd)]

\* particleCount, lightCount, photoCount and count
Counts ==
  [foliage |-> NumParticles, lights |-> NumLights, photos |-> NumPhotos,
   ornaments |-> NumOrnaments]

\* the layouts of the populations, one per value of the random source
Layouts == [rnd \in Randoms |-> GenLayout(Counts, rnd)]

\* tr = Math.sqrt(tx * tx + tz * tz), tAngle = Math.atan2(tz, tx), and the
\* same for a chaos point
Cylindrical(p) ==
  [h |-> p.y, r |-> Sqrt(Mul(p.x, p.x) + Mul(p.z, p.z)), angle |-> Atan2(p.z, p.x)]

\* the points of the generated layouts; the buffers never change after the
\* useMemo, so what a frame computes from a point is the same on every frame
\* and is kept in cylinders
LayoutPoints ==
  {foliageData.chaos[k] : k \in DOMAIN foliageData.chaos}
    \cup {foliageData.tree[k] : k \in DOMAIN foliageData.tree}
    \cup {lightsData.chaos[k] : k \in DOMAIN lightsData.chaos}
    \cup {lightsData.tree[k] : k \in DOMAIN lightsData.tree}
    \cup {photosData[i].chaosPos : i \in DOMAIN photosData}
    \cup {photosData[i].treePos : i \in DOMAIN photosData}
    \cup {ornaments[k].chaosPos : k \in DOMAIN ornaments}

\* --------------------------------------------------------------- selection

Context == [state |-> state, pointer |-> pointer, clickTrigger |-> clickTrigger,
            selectedPhotoUrl |-> selectedPhotoUrl]

RenderedContext == [state |-> rendered.state, pointer |-> rendered.pointer,
                    clickTrigger |-> rendered.clickTrigger,
                    selectedPhotoUrl |-> rendered.selectedPhotoUrl]

\* the handlers of one event run to completion before the next event
Quiescent == effects = {} /\ Context = RenderedContext

NdcX(p) == p[1] - 100
NdcY(p) == 100 - p[2]

DistSq(s, ndcX, ndcY) == (s.x - ndcX) * (s.x - ndcX) + (s.y - ndcY) * (s.y - ndcY)

InFront(s) == s.z < 1

\* dist < SELECTION_THRESHOLD && dist < minDistance; minDistance is Infinity
\* as long as closestPhotoId is null
CloserBad(d, acc) ==
  /\ d < SELECTION_THRESHOLD * SELECTION_THRESHOLD
  /\ (acc.closestPhotoId = Null \/ d > acc.minDistance)

Closer(d, acc) ==
  /\ d < SELECTION_THRESHOLD * SELECTION_THRESHOLD
  /\ (acc.closestPhotoId = Null \/ d < acc.minDistance)

\* the body of photoObjects.forEach, for the k-th element onwards
RECURSIVE ForEachPhoto(_, _, _, _)
ForEachPhoto(k, acc, ndcX, ndcY) ==
  IF k > Len(photoObjects) THEN acc
  ELSE LET i == photoObjects[k]
           d == DistSq(screenPos[i], ndcX, ndcY)
       IN IF i \notin refCurrent THEN ForEachPhoto(k + 1, acc, ndcX, ndcY)
          ELSE IF InFront(screenPos[i]) /\ Closer(d, acc)
               THEN ForEachPhoto(k + 1, [closestPhotoId |-> PrimaryUrl(i), minDistance |-> d],
                                 ndcX, ndcY)
               ELSE ForEachPhoto(k + 1, acc, ndcX, ndcY)

ClosestPhotoId(p) ==
  ForEachPhoto(1, [closestPhotoId |-> Null, minDistance |-> 0], NdcX(p), NdcY(p)).closestPhotoId

\* state === 'CHAOS' && pointer
ResolverGuardBad(st, p) == p # Null

ResolverGuard(st, p) == st = "CHAOS" /\ p # Null

\* Date.now() - photoOpenTimeRef.current < 3000
LockedBad(t, openedAt) == t - openedAt < 1000

Locked(t, openedAt) == t - openedAt < LOCK_MS

\* Date.now() - photoOpenTimeRef.current > 3000
CloseAllowed(t, openedAt) == t - openedAt > LOCK_MS

\* setSelectedPhotoUrl(closestPhotoId); photoOpenTimeRef.current = Date.now()
SelectNewBad(url) ==
  /\ selectedPhotoUrl' = url
  /\ UNCHANGED photoOpenTimeRef

SelectNew(url) ==
  /\ selectedPhotoUrl' = url
  /\ photoOpenTimeRef' = now

\* the body of the click effect once the lock check has passed
Resolve(sel, p) ==
  LET closest == ClosestPhotoId(p) IN
  IF closest # Null
  THEN IF sel = closest
       THEN IF CloseAllowed(now, photoOpenTimeRef)
            THEN selectedPhotoUrl' = Null /\ UNCHANGED photoOpenTimeRef
            ELSE UNCHANGED <<selectedPhotoUrl, photoOpenTimeRef>>
       ELSE SelectNew(closest)
  ELSE IF sel # Null /\ CloseAllowed(now, photoOpenTimeRef)
       THEN selectedPhotoUrl' = Null /\ UNCHANGED photoOpenTimeRef
       ELSE UNCHANGED <<selectedPhotoUrl, photoOpenTimeRef>>

\* TreeSystem: useEffect(..., [clickTrigger])
TreeSystemClickEffect ==
  /\ "TreeSystem" \in effects
  /\ effects' = effects \ {"TreeSystem"}
  /\ IF ResolverGuard(rendered.state, rendered.pointer)
     THEN IF rendered.selectedPhotoUrl # Null /\ Locked(now, photoOpenTimeRef)
          THEN UNCHANGED <<selectedPhotoUrl, photoOpenTimeRef>>
          ELSE Resolve(rendered.selectedPhotoUrl, rendered.pointer)
     ELSE UNCHANGED <<selectedPhotoUrl, photoOpenTimeRef>>
  /\ UNCHANGED <<state, pointer, clickTrigger, now, photoObjects, refCurrent, screenPos,
                 rendered, loadVars, morphVars>>

\* AppContent: useEffect(..., [clickTrigger, selectedPhotoUrl, pointer, setSelectedPhotoUrl])
\* document.elementFromPoint is an input of the environment
AppContentEffect ==
  /\ "AppContent" \in effects
  /\ effects' = effects \ {"AppContent"}
  /\ IF rendered.selectedPhotoUrl # Null /\ rendered.pointer # Null
     THEN \E element \in Elements :
            IF element # "none" /\ element \in {"IMG", "photo-modal-backdrop"}
            THEN selectedPhotoUrl' = Null
            ELSE UNCHANGED selectedPhotoUrl
     ELSE UNCHANGED selectedPhotoUrl
  /\ UNCHANGED <<state, pointer, clickTrigger, photoOpenTimeRef, now, photoObjects,
                 refCurrent, screenPos, rendered, loadVars, morphVars>>

\* PhotoModal: onClick={onClose} on the backdrop, mounted while selectedPhotoUrl is set
PhotoModalOnClose ==
  /\ Quiescent
  /\ selectedPhotoUrl # Null
  /\ selectedPhotoUrl' = Null
  /\ UNCHANGED <<state, pointer, clickTrigger, photoOpenTimeRef, now, photoObjects,
                 refCurrent, screenPos, rendered, effects, loadVars, morphVars>>

\* React renders the new context value and schedules the effects whose
\* dependencies changed
Render ==
  /\ effects = {}
  /\ Context # RenderedContext
  /\ LET changed == {d \in {"clickTrigger", "selectedPhotoUrl", "pointer"} :
                       Context[d] # RenderedContext[d]}
     IN /\ rendered' = [state |-> state, pointer |-> pointer, clickTrigger |-> clickTrigger,
                        selectedPhotoUrl |-> selectedPhotoUrl, changed |-> changed]
        /\ effects' = (IF "clickTrigger" \in changed THEN {"TreeSystem"} ELSE {})
                        \cup (IF changed # {} THEN {"AppContent"} ELSE {})
  /\ UNCHANGED <<state, pointer, clickTrigger, selectedPhotoUrl, photoOpenTimeRef, now,
                 photoObjects, refCurrent, screenPos, loadVars, morphVars>>

\* the gesture input: setClickTrigger(n + 1)
SetClickTrigger ==
  /\ Quiescent
  /\ clickTrigger < MaxClicks
  /\ clickTrigger' = clickTrigger + 1
  /\ UNCHANGED <<state, pointer, selectedPhotoUrl, photoOpenTimeRef, now, photoObjects,
                 refCurrent, screenPos, rendered, effects, loadVars, morphVars>>

\* the gesture input: setPointer(coords | null)
SetPointer ==
  /\ Quiescent
  /\ \E p \in Pointers \cup {Null} : p # pointer /\ pointer' = p
  /\ UNCHANGED <<state, clickTrigger, selectedPhotoUrl, photoOpenTimeRef, now, photoObjects,
                 refCurrent, screenPos, rendered, effects, loadVars, morphVars>>

\* the gesture input: setState('CHAOS' | 'FORMED')
SetState ==
  /\ Quiescent
  /\ state' = (IF state = "CHAOS" THEN "FORMED" ELSE "CHAOS")
  /\ UNCHANGED <<pointer, clickTrigger, selectedPhotoUrl, photoOpenTimeRef, now, photoObjects,
                 refCurrent, screenPos, rendered, effects, loadVars, morphVars>>

\* TreeSystem: useEffect(() => setPhotoObjects(photosData.map(...)), [photosData]);
\* the commit that follows attaches every group ref
SetPhotoObjects ==
  /\ photoObjects = <<>>
  /\ photoObjects' = [k \in 1 .. Cardinality(DOMAIN photosData) |-> k - 1]
  /\ refCurrent' = DOMAIN photosData
  /\ UNCHANGED <<state, pointer, clickTrigger, selectedPhotoUrl, photoOpenTimeRef, now,
                 screenPos, rendered, effects, loadVars, morphVars>>

\* useFrame writes every photo's transform; the camera projects it
Frame ==
  /\ Quiescent
  /\ \E sp \in [PhotoIdx -> ScreenPoints] : sp # screenPos /\ screenPos' = sp
  /\ UNCHANGED <<state, pointer, clickTrigger, selectedPhotoUrl, photoOpenTimeRef, now,
                 photoObjects, refCurrent, rendered, effects, loadVars, morphVars>>

\* the wall clock
TimePasses ==
  /\ Quiescent
  /\ \E d \in TimeSteps : now + d <= MaxNow /\ now' = now + d
  /\ UNCHANGED <<state, pointer, clickTrigger, selectedPhotoUrl, photoOpenTimeRef,
                 photoObjects, refCurrent, screenPos, rendered, effects, loadVars, morphVars>>

SelInit ==
  /\ state = "CHAOS"
  /\ pointer = Null
  /\ clickTrigger = 0
  /\ selectedPhotoUrl = Null
  /\ photoOpenTimeRef = 0
  /\ now = 10000
  /\ photoObjects = <<>>
  /\ refCurrent = {}
  /\ screenPos \in [PhotoIdx -> ScreenPoints]
  /\ rendered = [state |-> "CHAOS", pointer |-> Null, clickTrigger |-> 0,
                 selectedPhotoUrl |-> Null, changed |-> {}]
  /\ effects = {"TreeSystem", "AppContent"}

LoadInit ==
  /\ loadedCount = 0
  /\ textureCache = [u \in Urls |-> 0]
  /\ loadingPromises = [u \in Urls |-> 0]
  /\ promises = <<>>
  /\ loaderCalls = [u \in Urls |-> 0]
  /\ cacheWrites = [u \in Urls |-> 0]
  /\ instPhoto \in [Instances -> PhotoIdx]
  /\ loadStatus = [i \in Instances |-> "pending"]
  /\ texture = [i \in Instances |-> 0]
  /\ awaiting = [i \in Instances |-> [kind |-> "none", ref |-> 0, stage |-> "none"]]
  /\ requests = [i \in Instances |-> 0]

\* App: useState(0.3), useState(0); the refs of both components start at 0
MorphInit ==
  /\ rotationSpeed = (3 * ONE) \div 10
  /\ rotationBoost = 0
  /\ progress = 0
  /\ treeRotation = 0
  /\ ornProgress = 0
  /\ ornRotation = 0
  /\ ticks = 0
  /\ frameDelta = 0
  /\ panOffset = [x |-> 0, y |-> 0]
  /\ currentPan = [x |-> 0, y |-> 0]
  /\ ornPan = [x |-> 0, y |-> 0]

\* the scene of the generated layouts l before the first frame: the buffers
\* and the transforms are zero
SceneOf(l) ==
  /\ foliageData = l.foliage
  /\ lightsData = l.lights
  /\ photosData = l.photos
  /\ ornaments = l.ornaments
  /\ cylinders = [p \in LayoutPoints |-> Cylindrical(p)]
  /\ ease = 0
  /\ ornEase = 0
  /\ positions = [k \in DOMAIN foliageData.tree |-> Point(0, 0, 0)]
  /\ lightPos = [k \in 0 .. (lightsData.count - 1) |-> Point(0, 0, 0)]
  /\ photoXform = [i \in DOMAIN photosData |->
                     [position |-> Point(0, 0, 0), rotation |-> Point(0, 0, 0)]]
  /\ ornPos = [k \in DOMAIN ornaments |-> Point(0, 0, 0)]
  /\ trunk = [scale |-> Point(ONE, ONE, ONE), y |-> 0, rotationY |-> 0]

\* the scene of the layouts generated with the random source rnd
SceneInit(rnd) == SceneOf(Layouts[rnd])

Init ==
  /\ SelInit /\ LoadInit /\ MorphInit /\ SceneInit(Dec(1, 4))
  /\ instPhoto = [i \in Instances |-> 0]

InitLoad ==
  /\ SelInit /\ LoadInit /\ MorphInit /\ SceneInit(Dec(1, 4))
  /\ screenPos = [i \in PhotoIdx |-> [x |-> 0, y |-> 0, z |-> 0]]

Next ==
  \/ TreeSystemClickEffect
  \/ AppContentEffect
  \/ PhotoModalOnClose
  \/ Render
  \/ SetClickTrigger
  \/ SetPointer
  \/ SetState
  \/ SetPhotoObjects
  \/ Frame
  \/ TimePasses

Spec == Init /\ [][Next]_vars

\* ----------------------------------------------------------- texture cache

loaderVars == <<textureCache, loadingPromises, promises, loaderCalls, cacheWrites>>

\* loadTextureWithCache(url, loader), called by instance i at a stage of its
\* chain; the promise it returns is what the chain of i is given
loadTextureWithCacheBad(url, i, stage) ==
  IF textureCache[url] # 0
  THEN /\ awaiting' = [awaiting EXCEPT ![i] =
                         [kind |-> "resolved", ref |-> textureCache[url], stage |-> stage]]
       /\ UNCHANGED loaderVars
  ELSE /\ Len(promises) < MaxLoads
       /\ promises' = Append(promises, [url |-> url, status |-> "pending"])
       /\ loaderCalls' = [loaderCalls EXCEPT ![url] = @ + 1]
       /\ loadingPromises' = [loadingPromises EXCEPT ![url] = Len(promises) + 1]
       /\ awaiting' = [awaiting EXCEPT ![i] =
                         [kind |-> "promise", ref |-> Len(promises) + 1, stage |-> stage]]
       /\ UNCHANGED <<textureCache, cacheWrites>>

loadTextureWithCache(url, i, stage) ==
  IF textureCache[url] # 0
  THEN /\ awaiting' = [awaiting EXCEPT ![i] =
                         [kind |-> "resolved", ref |-> textureCache[url], stage |-> stage]]
       /\ UNCHANGED loaderVars
  ELSE IF loadingPromises[url] # 0
  THEN /\ awaiting' = [awaiting EXCEPT ![i] =
                         [kind |-> "promise", ref |-> loadingPromises[url], stage |-> stage]]
       /\ UNCHANGED loaderVars
  ELSE /\ Len(promises) < MaxLoads
       /\ promises' = Append(promises, [url |-> url, status |-> "pending"])
       /\ loaderCalls' = [loaderCalls EXCEPT ![url] = @ + 1]
       /\ loadingPromises' = [loadingPromises EXCEPT ![url] = Len(promises) + 1]
       /\ awaiting' = [awaiting EXCEPT ![i] =
                         [kind |-> "promise", ref |-> Len(promises) + 1, stage |-> stage]]
       /\ UNCHANGED <<textureCache, cacheWrites>>

\* the onLoad callback given to loader.load: the texture of promise pid is pid
OnLoadBad(pid) ==
  /\ textureCache' = [textureCache EXCEPT ![promises[pid].url] = pid]
  /\ cacheWrites' = [cacheWrites EXCEPT ![promises[pid].url] = @ + 1]
  /\ UNCHANGED loadingPromises
  /\ promises' = [promises EXCEPT ![pid].status = "resolved"]

OnLoad(pid) ==
  /\ textureCache' = [textureCache EXCEPT ![promises[pid].url] = pid]
  /\ cacheWrites' = [cacheWrites EXCEPT ![promises[pid].url] = @ + 1]
  /\ loadingPromises' = [loadingPromises EXCEPT ![promises[pid].url] = 0]
  /\ promises' = [promises EXCEPT ![pid].status = "resolved"]

\* THREE.TextureLoader completes a load, asynchronously
LoaderOnLoad(pid) ==
  /\ promises[pid].status = "pending"
  /\ OnLoad(pid)
  /\ UNCHANGED <<morphVars, selVars, loadedCount, loaderCalls, instPhoto, loadStatus, texture,
                 awaiting, requests>>

\* THREE.TextureLoader fails a load: onError is the promise's reject
LoaderOnErrorForget(pid) ==
  /\ promises[pid].status = "pending"
  /\ promises' = [promises EXCEPT ![pid].status = "rejected"]
  /\ loadingPromises' = [loadingPromises EXCEPT ![promises[pid].url] = 0]
  /\ UNCHANGED <<morphVars, selVars, loadedCount, textureCache, loaderCalls,
                 cacheWrites, instPhoto, loadStatus, texture, awaiting, requests>>

LoaderOnError(pid) ==
  /\ promises[pid].status = "pending"
  /\ promises' = [promises EXCEPT ![pid].status = "rejected"]
  /\ UNCHANGED <<morphVars, selVars, loadedCount, textureCache, loadingPromises, loaderCalls,
                 cacheWrites, instPhoto, loadStatus, texture, awaiting, requests>>

\* how the promise a chain was given has settled
Settled(a) ==
  IF a.kind = "resolved" THEN "resolved"
  ELSE IF a.kind = "promise" THEN promises[a.ref].status
  ELSE "pending"

\* the texture a resolved promise carries: the cached one, or the one its load produced
Resolution(a) == a.ref

\* shouldLoad={index < loadedCount}
shouldLoad(i) == instPhoto[i] < loadedCount

\* PolaroidPhoto: useEffect(..., [url, id, shouldLoad, loadStatus])
PolaroidLoadEffect(i) ==
  /\ shouldLoad(i)
  /\ loadStatus[i] = "pending"
  /\ loadStatus' = [loadStatus EXCEPT ![i] = "loading"]
  /\ loadTextureWithCache(PrimaryUrl(instPhoto[i]), i, "primary")
  /\ requests' = [requests EXCEPT ![i] = @ + 1]
  /\ UNCHANGED <<morphVars, selVars, loadedCount, instPhoto, texture>>

\* .then((tex) => { setTexture(tex); setLoadStatus('loaded') }) of either load
LoadThen(i) ==
  /\ awaiting[i].stage \in {"primary", "fallback"}
  /\ Settled(awaiting[i]) = "resolved"
  /\ texture' = [texture EXCEPT ![i] = Resolution(awaiting[i])]
  /\ loadStatus' = [loadStatus EXCEPT ![i] = "loaded"]
  /\ awaiting' = [awaiting EXCEPT ![i].stage = "done"]
  /\ UNCHANGED <<morphVars, selVars, loadedCount, loaderVars, instPhoto, requests>>

\* .catch(() => loadTextureWithCache(fallbackUrl, loader)...) of the primary load
PrimaryCatch(i) ==
  /\ awaiting[i].stage = "primary"
  /\ Settled(awaiting[i]) = "rejected"
  /\ loadTextureWithCache(FallbackUrl(instPhoto[i]), i, "fallback")
  /\ requests' = [requests EXCEPT ![i] = @ + 1]
  /\ UNCHANGED <<morphVars, selVars, loadedCount, instPhoto, loadStatus, texture>>

\* .catch(() => setLoadStatus('error')) of the fallback load
FallbackCatchBad(i) ==
  /\ awaiting[i].stage = "fallback"
  /\ Settled(awaiting[i]) = "rejected"
  /\ loadStatus' = [loadStatus EXCEPT ![i] = "pending"]
  /\ awaiting' = [awaiting EXCEPT ![i].stage = "done"]
  /\ UNCHANGED <<morphVars, selVars, loadedCount, loaderVars, instPhoto, texture, requests>>

FallbackCatch(i) ==
  /\ awaiting[i].stage = "fallback"
  /\ Settled(awaiting[i]) = "rejected"
  /\ loadStatus' = [loadStatus EXCEPT ![i] = "error"]
  /\ awaiting' = [awaiting EXCEPT ![i].stage = "done"]
  /\ UNCHANGED <<morphVars, selVars, loadedCount, loaderVars, instPhoto, texture, requests>>

\* TreeSystem: the idle callback of the progressive-loading effect
LoadNextUnclamped ==
  /\ loadedCount < Len(photoObjects)
  /\ loadedCount' = loadedCount + LOAD_BATCH
  /\ UNCHANGED <<morphVars, selVars, loaderVars, instPhoto, loadStatus, texture, awaiting, requests>>

LoadNext ==
  /\ loadedCount < Len(photoObjects)
  /\ loadedCount' = (IF loadedCount + LOAD_BATCH < Len(photoObjects)
                     THEN loadedCount + LOAD_BATCH ELSE Len(photoObjects))
  /\ UNCHANGED <<morphVars, selVars, loaderVars, instPhoto, loadStatus, texture, awaiting, requests>>

NextLoad ==
  \/ SetPhotoObjects
  \/ LoadNext
  \/ \E i \in Instances : PolaroidLoadEffect(i)
  \/ \E i \in Instances : LoadThen(i)
  \/ \E i \in Instances : PrimaryCatch(i)
  \/ \E i \in Instances : FallbackCatch(i)
  \/ \E pid \in 1 .. Len(promises) : LoaderOnLoad(pid)
  \/ \E pid \in 1 .. Len(promises) : LoaderOnError(pid)

SpecLoad == InitLoad /\ [][NextLoad]_vars

\* ------------------------------------------------------------ morph clocks

SlowLambda == (25 * ONE) \div 100

PROGRESS_LAMBDA == (25 * ONE) \div 10
TREE_IDLE_SPIN == (8 * ONE) \div 100
ORN_IDLE_SPIN == (6 * ONE) \div 100

\* frame deltas: a repeated frame, a frame at 60 Hz, and the first frame after
\* the tab was hidden for 40 s
Sixtieth == (ONE + 30) \div 60
Deltas == {0, Sixtieth, 40 * ONE}

\* values the gesture input gives to setRotationSpeed and setRotationBoost
Speeds == {(3 * ONE) \div 10, ONE}
Boosts == {0, ONE, -(2 * ONE)}

\* state === 'FORMED' ? 1 : 0
TargetProgressSwapped == IF state = "FORMED" THEN 0 ELSE ONE

TargetProgress == IF state = "FORMED" THEN ONE ELSE 0

\* state === 'FORMED' ? (rotationSpeed + rotationBoost) : 0.08
CurrentRotationSpeed == IF state = "FORMED" THEN rotationSpeed + rotationBoost ELSE TREE_IDLE_SPIN

\* state === 'FORMED' ? rotationSpeed : 0.06
SpinFactor == IF state = "FORMED" THEN rotationSpeed ELSE ORN_IDLE_SPIN

\* treeRotation.current += currentRotationSpeed * delta
SpinBad(angle, rate, delta) == angle + Mul(rate, Sixtieth)

Spin(angle, rate, delta) == angle + Mul(rate, delta)

\* the vortex strength and the co-rotation factor of every population
FOLIAGE_BLEND == [vortex |-> 15 * ONE, coRotation |-> Dec(5, 10)]
LIGHT_BLEND == [vortex |-> 12 * ONE, coRotation |-> Dec(3, 10)]
PHOTO_BLEND == [vortex |-> 10 * ONE, coRotation |-> Dec(2, 10)]
ORNAMENT_BLEND == [vortex |-> 12 * ONE, coRotation |-> Dec(15, 100)]

\* vortexTwist = (1 - ease) * vortex; currentAngle = tAngle + vortexTwist + rotation
CurrentAngleStill(cyl, e, rot, k) == cyl.angle + Mul(ONE - e, k.vortex)

CurrentAngle(cyl, e, rot, k) == cyl.angle + Mul(ONE - e, k.vortex) + rot

\* the polar blend of a chaos point c (polar form cc) and a tree point in
\* cylindrical form cyl, at ease e and rotation angle rot
PolarBlendBad(c, cc, cyl, e, rot, k) ==
  LET r == Lerp(cc.r, cyl.r, e)
      currentAngle == cyl.angle + Mul(e, k.vortex) + rot
      cRotatedX == Mul(cc.r, Cos[cc.angle + Mul(rot, k.coRotation)])
      cRotatedZ == Mul(cc.r, Sin[cc.angle + Mul(rot, k.coRotation)])
  IN Point(Lerp(cRotatedX, Mul(r, Cos[currentAngle]), e),
           Lerp(c.y, cyl.h, e),
           Lerp(cRotatedZ, Mul(r, Sin[currentAngle]), e))

PolarBlend(c, cc, cyl, e, rot, k) ==
  LET r == Lerp(cc.r, cyl.r, e)
      currentAngle == CurrentAngle(cyl, e, rot, k)
      cRotatedX == Mul(cc.r, Cos[cc.angle + Mul(rot, k.coRotation)])
      cRotatedZ == Mul(cc.r, Sin[cc.angle + Mul(rot, k.coRotation)])
  IN Point(Lerp(cRotatedX, Mul(r, Cos[currentAngle]), e),
           Lerp(c.y, cyl.h, e),
           Lerp(cRotatedZ, Mul(r, Sin[currentAngle]), e))

\* if (!obj.ref.current) return, for the photo objects of photoObjects
PhotoUpdatedBad(i) ==
  /\ i \in refCurrent
  /\ \E k \in 1 .. Len(photoObjects) : photoObjects[k] = i
  /\ \E n \in Instances : instPhoto[n] = i /\ loadStatus[n] = "loaded"

PhotoUpdated(i) ==
  /\ i \in refCurrent
  /\ \E k \in 1 .. Len(photoObjects) : photoObjects[k] = i

\* obj.ref.current.position.set(...) and the three rotation lerps of a photo
PhotoTransform(d, e, rot) ==
  LET cyl == cylinders[d.treePos]
      lookAtAngle == -CurrentAngle(cyl, e, rot, PHOTO_BLEND) + PI \div 2
  IN [position |-> PolarBlend(d.chaosPos, cylinders[d.chaosPos], cyl, e, rot, PHOTO_BLEND),
      rotation |-> Point(Lerp(d.chaosRot.x, d.treeRot.x, e),
                         Lerp(d.chaosRot.y, lookAtAngle, e),
                         Lerp(d.chaosRot.z, d.treeRot.z, e))]

\* trunkRef.current.scale.set(trunkScale, ease, trunkScale), position.y = 1,
\* rotation.y = treeRotation.current
TrunkTransform(e, rot) ==
  [scale |-> Point(Smoothstep(e, Dec(3, 10), ONE), e, Smoothstep(e, Dec(3, 10), ONE)),
   y |-> ONE, rotationY |-> rot]

\* currentPan.current.x = damp(currentPan.current.x, panOffset.x, 8, delta), and
\* the same for y; the group's position.x and position.y are set to the result
PAN_LAMBDA == 8 * ONE

DampPan(pan, target, lambda, delta) ==
  [x |-> Damp(pan.x, target.x, lambda, delta), y |-> Damp(pan.y, target.y, lambda, delta)]

\* the foliage loop, the light loop, the trunk and the photo loop of the
\* TreeSystem frame
TreeSystemBlend(e, rot) ==
  /\ positions' = [k \in DOMAIN positions |->
                     PolarBlend(foliageData.chaos[k], cylinders[foliageData.chaos[k]],
                                cylinders[foliageData.tree[k]], e, rot, FOLIAGE_BLEND)]
  /\ lightPos' = [k \in 0 .. (lightsData.count - 1) |->
                    PolarBlend(lightsData.chaos[k], cylinders[lightsData.chaos[k]],
                               cylinders[lightsData.tree[k]], e, rot, LIGHT_BLEND)]
  /\ photoXform' = [i \in DOMAIN photoXform |->
                      IF PhotoUpdated(i) THEN PhotoTransform(photosData[i], e, rot)
                      ELSE photoXform[i]]
  /\ trunk' = TrunkTransform(e, rot)

\* TreeSystem: useFrame((state3d, delta) => ...)
TreeSystemUseFrameStale(delta) ==
  /\ progress' = Damp(progress, TargetProgress, PROGRESS_LAMBDA, delta)
  /\ ease' = Ease(progress')
  /\ treeRotation' = Spin(treeRotation, CurrentRotationSpeed, delta)
  /\ currentPan' = DampPan(currentPan, panOffset, PAN_LAMBDA, delta)
  /\ TreeSystemBlend(ease, treeRotation)

TreeSystemUseFrameWrapped(delta) ==
  /\ progress' = Damp(progress, TargetProgress, PROGRESS_LAMBDA, delta)
  /\ ease' = Ease(progress')
  /\ treeRotation' = Spin(treeRotation, CurrentRotationSpeed, delta) % (2 * PI)
  /\ currentPan' = DampPan(currentPan, panOffset, PAN_LAMBDA, delta)
  /\ TreeSystemBlend(ease', treeRotation')

TreeSystemUseFrame(delta) ==
  /\ progress' = Damp(progress, TargetProgress, PROGRESS_LAMBDA, delta)
  /\ ease' = Ease(progress')
  /\ treeRotation' = Spin(treeRotation, CurrentRotationSpeed, delta)
  /\ currentPan' = DampPan(currentPan, panOffset, PAN_LAMBDA, delta)
  /\ TreeSystemBlend(ease', treeRotation')

\* CrystalOrnaments: useFrame((state3d, delta) => ...)
OrnamentsUseFrameSlowPan(delta) ==
  /\ ornProgress' = Damp(ornProgress, TargetProgress, PROGRESS_LAMBDA, delta)
  /\ ornEase' = Ease(ornProgress')
  /\ ornRotation' = Spin(ornRotation, SpinFactor, delta)
  /\ ornPan' = DampPan(ornPan, panOffset, PROGRESS_LAMBDA, delta)
  /\ ornPos' = [k \in DOMAIN ornPos |->
                  PolarBlend(ornaments[k].chaosPos, cylinders[ornaments[k].chaosPos],
                             ornaments[k].treeCyl, ornEase', ornRotation', ORNAMENT_BLEND)]

OrnamentsUseFrame(delta) ==
  /\ ornProgress' = Damp(ornProgress, TargetProgress, PROGRESS_LAMBDA, delta)
  /\ ornEase' = Ease(ornProgress')
  /\ ornRotation' = Spin(ornRotation, SpinFactor, delta)
  /\ ornPan' = DampPan(ornPan, panOffset, PAN_LAMBDA, delta)
  /\ ornPos' = [k \in DOMAIN ornPos |->
                  PolarBlend(ornaments[k].chaosPos, cylinders[ornaments[k].chaosPos],
                             ornaments[k].treeCyl, ornEase', ornRotation', ORNAMENT_BLEND)]

\* one frame of the render loop: every useFrame callback is called with the
\* same delta
RenderFrameInPlace(delta) ==
  /\ Quiescent
  /\ ticks' = ticks + 1
  /\ frameDelta' = delta
  /\ TreeSystemUseFrame(delta)
  /\ OrnamentsUseFrame(delta)
  /\ foliageData' = [foliageData EXCEPT !.chaos = positions']
  /\ UNCHANGED <<selVars, loadVars, rotationSpeed, rotationBoost, panOffset, lightsData,
                 photosData, ornaments, cylinders>>

RenderFrame(delta) ==
  /\ Quiescent
  /\ ticks' = ticks + 1
  /\ frameDelta' = delta
  /\ TreeSystemUseFrame(delta)
  /\ OrnamentsUseFrame(delta)
  /\ UNCHANGED <<selVars, loadVars, rotationSpeed, rotationBoost, panOffset, layoutVars>>

\* the gesture input: setRotationSpeed(number)
SetRotationSpeed ==
  /\ Quiescent
  /\ \E v \in Speeds : v # rotationSpeed /\ rotationSpeed' = v
  /\ UNCHANGED <<selVars, loadVars, rotationBoost, progress, treeRotation, ornProgress,
                 ornRotation, ticks, frameDelta, layoutVars, sceneVars, panVars>>

\* the gesture input: setRotationBoost(number)
SetRotationBoost ==
  /\ Quiescent
  /\ \E v \in Boosts : v # rotationBoost /\ rotationBoost' = v
  /\ UNCHANGED <<selVars, loadVars, rotationSpeed, progress, treeRotation, ornProgress,
                 ornRotation, ticks, frameDelta, layoutVars, sceneVars, panVars>>

\* the gesture input: setPanOffset({ x, y })
PanTargets == {[x |-> 0, y |-> 0], [x |-> 2 * ONE, y |-> -ONE], [x |-> -Dec(35, 10), y |-> Dec(5, 10)]}

SetPanOffset ==
  /\ Quiescent
  /\ \E v \in PanTargets : v # panOffset /\ panOffset' = v
  /\ UNCHANGED <<selVars, loadVars, rotationSpeed, rotationBoost, progress, treeRotation,
                 ornProgress, ornRotation, ticks, frameDelta, layoutVars, sceneVars,
                 currentPan, ornPan>>

\* frames of any delta, up to MaxTicks of them
MorphTick == \E delta \in Deltas : ticks < MaxTicks /\ RenderFrame(delta)

\* the application after its mount effects have run
InitMorph ==
  /\ SelInit /\ LoadInit /\ MorphInit /\ SceneInit(Dec(1, 4))
  /\ screenPos = [i \in PhotoIdx |-> [x |-> 0, y |-> 0, z |-> 0]]
  /\ instPhoto = [i \in Instances |-> 0]

NextMorph ==
  \/ TreeSystemClickEffect
  \/ AppContentEffect
  \/ Render
  \/ SetState
  \/ SetRotationSpeed
  \/ SetRotationBoost
  \/ MorphTick

SpecMorph == InitMorph /\ [][NextMorph]_vars

\* the scenario of a panned tree: mode switches and pan targets between frames
\* of any delta
NextPan ==
  \/ TreeSystemClickEffect
  \/ AppContentEffect
  \/ Render
  \/ SetState
  \/ SetPanOffset
  \/ MorphTick

SpecPan == InitMorph /\ [][NextPan]_vars

\* the scenario of a steady display: frames at 60 Hz, the mode held for
\* HoldFrames frames at a time
SteadyTick == ticks < 2 * HoldFrames /\ RenderFrame(Sixtieth)

HeldSetState == ticks % HoldFrames = 0 /\ SetState

NextSteady ==
  \/ TreeSystemClickEffect
  \/ AppContentEffect
  \/ Render
  \/ HeldSetState
  \/ SteadyTick

SpecSteady == InitMorph /\ [][NextSteady]_vars

\* the first frame, of many lengths: no frame, the frame that brings progress
\* to one half, frames around 16.2 ms a microsecond apart, and a 40 s frame
HalfwayDelta == 277259
ProbeDeltas ==
  {0, HalfwayDelta, 40 * ONE} \cup (Dec(162, 10000) .. (Dec(162, 10000) + ProbeSpan))

ProbeFrame == \E delta \in ProbeDeltas : ticks < 1 /\ RenderFrame(delta)

NextProbe ==
  \/ TreeSystemClickEffect
  \/ AppContentEffect
  \/ Render
  \/ SetState
  \/ ProbeFrame

SpecProbe == InitMorph /\ [][NextProbe]_vars

\* the scene: any generated layout, the photo objects mounted at some point,
\* frames at 60 Hz and 40 s frames, mode switches
InitScene ==
  /\ SelInit /\ LoadInit /\ MorphInit
  /\ \E rnd \in Randoms : SceneInit(rnd)
  /\ screenPos = [i \in PhotoIdx |-> [x |-> 0, y |-> 0, z |-> 0]]
  /\ instPhoto = [i \in Instances |-> 0]

SceneTick == \E delta \in {Sixtieth, 40 * ONE} : ticks < MaxTicks /\ RenderFrame(delta)

NextScene ==
  \/ TreeSystemClickEffect
  \/ AppContentEffect
  \/ Render
  \/ SetState
  \/ SetPhotoObjects
  \/ SceneTick

SpecScene == InitScene /\ [][NextScene]_vars

\* the scene with the gesture input of the selection: frames, mode switches,
\* pointer moves and click triggers, frames at 60 Hz
LayoutTick == ticks < MaxTicks /\ RenderFrame(Sixtieth)

NextLayout ==
  \/ TreeSystemClickEffect
  \/ AppContentEffect
  \/ Render
  \/ SetState
  \/ SetPhotoObjects
  \/ SetPointer
  \/ SetClickTrigger
  \/ LayoutTick

SpecLayout == InitScene /\ [][NextLayout]_vars

\* the scene when a population has no member: one of the four counts is 0, or
\* all of them are
ZeroCounts == [foliage |-> 0, lights |-> 0, photos |-> 0, ornaments |-> 0]

EmptyCounts ==
  {[Counts EXCEPT ![n] = 0] : n \in {"foliage", "lights", "photos", "ornaments"}}
    \cup {ZeroCounts}

InitEmpty ==
  /\ SelInit /\ LoadInit /\ MorphInit
  /\ \E counts \in EmptyCounts : SceneOf(GenLayout(counts, Dec(1, 4)))
  /\ screenPos = [i \in PhotoIdx |-> [x |-> 0, y |-> 0, z |-> 0]]
  /\ instPhoto = [i \in Instances |-> 0]

SpecEmpty == InitEmpty /\ [][NextLayout]_vars

\* the scene with any number of photo files up to the number the code lists
PHOTO_FILES == 31

PhotoCounts == {2, 4, 16, PHOTO_FILES}

InitSpiral ==
  /\ SelInit /\ LoadInit /\ MorphInit
  /\ \E n \in PhotoCounts : SceneOf(GenLayout([Counts EXCEPT !.photos = n], Dec(1, 4)))
  /\ screenPos = [i \in PhotoIdx |-> [x |-> 0, y |-> 0, z |-> 0]]
  /\ instPhoto = [i \in Instances |-> 0]

SpecSpiral == InitSpiral /\ [][NextScene]_vars

\* progressive loading of an odd, an even and the code's number of photos; the
\* PolaroidPhoto instances followed are those of the first photos. The effect
\* schedules loadNext with requestIdleCallback(loadNext, {timeout: 150}) or
\* setTimeout(loadNext, 80) whenever loadedCount is below the number of photo
\* objects, and only a change of loadedCount or of that number cancels it: a
\* callback that stays due is run
LoadCounts == {3, 4, PHOTO_FILES}

InitProgressive ==
  /\ SelInit /\ LoadInit /\ MorphInit
  /\ \E n \in LoadCounts : SceneOf(GenLayout([Counts EXCEPT !.photos = n], Dec(1, 4)))
  /\ screenPos = [i \in PhotoIdx |-> [x |-> 0, y |-> 0, z |-> 0]]

\* the loads of this scenario succeed
NextProgressive ==
  \/ SetPhotoObjects
  \/ LoadNext
  \/ \E i \in Instances : PolaroidLoadEffect(i)
  \/ \E i \in Instances : LoadThen(i)
  \/ \E pid \in 1 .. Len(promises) : LoaderOnLoad(pid)

SpecProgressive ==
  InitProgressive /\ [][NextProgressive]_vars /\ WF_vars(SetPhotoObjects) /\ WF_vars(LoadNext)

\* the photos while they load: one PolaroidPhoto per photo and a further one
\* for the first photo, frames at 60 Hz in between the steps of the loads
InitPlaceholder ==
  /\ SelInit /\ LoadInit /\ MorphInit /\ SceneInit(Dec(1, 4))
  /\ screenPos = [i \in PhotoIdx |-> [x |-> 0, y |-> 0, z |-> 0]]
  /\ instPhoto = [i \in Instances |-> (i - 1) % NumPhotos]

PlaceholderTick == ticks < MaxTicks /\ RenderFrame(Sixtieth)

NextPlaceholder ==
  \/ TreeSystemClickEffect
  \/ AppContentEffect
  \/ PlaceholderTick
  \/ NextLoad

SpecPlaceholder == InitPlaceholder /\ [][NextPlaceholder]_vars

\* ------------------------------------------------- claims on the selection

\* a step of the TreeSystem click effect, and one that a trigger caused
TreeStep == "TreeSystem" \in effects /\ "TreeSystem" \notin effects'
Triggered == "clickTrigger" \in rendered.changed
HandlerStep == effects' # effects /\ effects' \subseteq effects
Elapsed == now - photoOpenTimeRef

\* the panels a trigger at pointer p can select, and the nearest of them
InRange(p) == {i \in refCurrent : /\ \E k \in 1 .. Len(photoObjects) : photoObjects[k] = i
                                  /\ screenPos[i].z < 1
                                  /\ DistSq(screenPos[i], NdcX(p), NdcY(p)) < 25}
Nearest(p) == {i \in InRange(p) : \A j \in InRange(p) :
                 DistSq(screenPos[i], NdcX(p), NdcY(p)) <= DistSq(screenPos[j], NdcX(p), NdcY(p))}

\* C1: in the TreeSystem click effect, a trigger in CHAOS mode with a pointer,
\* while a photo is selected and less than 3000 ms have passed since it was
\* opened, changes neither the selection nor the recorded opening time.
C1_LockedTriggerIgnored ==
  [][(/\ TreeStep /\ Triggered
      /\ rendered.state = "CHAOS" /\ rendered.pointer # Null
      /\ rendered.selectedPhotoUrl # Null
      /\ Elapsed < 3000)
     => UNCHANGED <<selectedPhotoUrl, photoOpenTimeRef>>]_vars

\* the click effect has run inside the lock with another panel nearest to the
\* pointer, and the selection is still the locked one
C1_Witness ==
  /\ Triggered /\ "TreeSystem" \notin effects
  /\ rendered.state = "CHAOS" /\ rendered.pointer # Null
  /\ rendered.selectedPhotoUrl # Null /\ selectedPhotoUrl = rendered.selectedPhotoUrl
  /\ Elapsed < 3000 /\ Elapsed > 0
  /\ Nearest(rendered.pointer) # {}
  /\ \A i \in Nearest(rendered.pointer) : PrimaryUrl(i) # selectedPhotoUrl

\* C2: no handler run by a trigger less than 3000 ms after a photo was opened
\* changes or clears the selection.
C2_NoHandlerChangesLockedSelection ==
  [][(/\ HandlerStep /\ Triggered
      /\ selectedPhotoUrl # Null
      /\ Elapsed < 3000)
     => selectedPhotoUrl' = selectedPhotoUrl]_vars

\* C3: the selection changes only in a handler step caused by an increment of
\* clickTrigger.
C3_SelectionChangesOnlyOnTrigger ==
  [][selectedPhotoUrl' # selectedPhotoUrl => (HandlerStep /\ Triggered)]_vars

\* C4: from Idle, a trigger in CHAOS mode with a pointer selects a nearest
\* mounted panel in front of the camera within 0.05 of the pointer and records
\* the time; with no such panel the selection and the time are unchanged.
C4_IdleSelectsNearest ==
  [][(/\ TreeStep /\ Triggered
      /\ rendered.state = "CHAOS" /\ rendered.pointer # Null
      /\ rendered.selectedPhotoUrl = Null)
     => IF Nearest(rendered.pointer) # {}
        THEN /\ \E i \in Nearest(rendered.pointer) : selectedPhotoUrl' = PrimaryUrl(i)
             /\ photoOpenTimeRef' = now
        ELSE UNCHANGED <<selectedPhotoUrl, photoOpenTimeRef>>]_vars

\* a trigger from Idle has selected the nearer of two panels that are both
\* within the threshold
C4_Witness ==
  /\ Triggered /\ "TreeSystem" \notin effects
  /\ rendered.state = "CHAOS" /\ rendered.pointer # Null
  /\ rendered.selectedPhotoUrl = Null
  /\ Cardinality(InRange(rendered.pointer)) > 1
  /\ Nearest(rendered.pointer) # InRange(rendered.pointer)
  /\ \E i \in Nearest(rendered.pointer) : selectedPhotoUrl = PrimaryUrl(i)
  /\ photoOpenTimeRef = now

\* C5: from Active, a trigger at elapsed >= 3000 ms whose nearest panel is the
\* selected one clears the selection.
C5_ReselectClears ==
  [][(/\ TreeStep /\ Triggered
      /\ rendered.state = "CHAOS" /\ rendered.pointer # Null
      /\ rendered.selectedPhotoUrl # Null
      /\ Elapsed >= 3000
      /\ \E i \in PhotoIdx : /\ Nearest(rendered.pointer) = {i}
                             /\ PrimaryUrl(i) = rendered.selectedPhotoUrl)
     => selectedPhotoUrl' = Null]_vars

\* C6: from Active, a trigger over empty space clears the selection when
\* elapsed >= 3000 ms and leaves it unchanged inside the lock.
C6_EmptySpaceClears ==
  [][(/\ TreeStep /\ Triggered
      /\ rendered.state = "CHAOS" /\ rendered.pointer # Null
      /\ rendered.selectedPhotoUrl # Null
      /\ InRange(rendered.pointer) = {})
     => IF Elapsed >= 3000 THEN selectedPhotoUrl' = Null
        ELSE UNCHANGED selectedPhotoUrl]_vars

\* C7: from Active with the lock expired, a trigger whose nearest panel is
\* another one selects it and sets the opening time to the time of the trigger.
C7_SwitchRefreshesTime ==
  [][(/\ TreeStep /\ Triggered
      /\ rendered.state = "CHAOS" /\ rendered.pointer # Null
      /\ rendered.selectedPhotoUrl # Null
      /\ Elapsed >= 3000
      /\ Nearest(rendered.pointer) # {}
      /\ \A i \in Nearest(rendered.pointer) : PrimaryUrl(i) # rendered.selectedPhotoUrl)
     => /\ \E i \in Nearest(rendered.pointer) : selectedPhotoUrl' = PrimaryUrl(i)
        /\ photoOpenTimeRef' = now]_vars

\* a trigger has replaced an open photo by another one and the opening time
\* is the time of that trigger
C7_Witness ==
  /\ Triggered /\ "TreeSystem" \notin effects
  /\ rendered.state = "CHAOS" /\ rendered.pointer # Null
  /\ rendered.selectedPhotoUrl # Null
  /\ selectedPhotoUrl # Null /\ selectedPhotoUrl # rendered.selectedPhotoUrl
  /\ \E i \in Nearest(rendered.pointer) : selectedPhotoUrl = PrimaryUrl(i)
  /\ photoOpenTimeRef = now

RequestedUrl(i) ==
  IF awaiting'[i].stage = "primary" THEN PrimaryUrl(instPhoto[i]) ELSE FallbackUrl(instPhoto[i])
Cached(u) == textureCache[u] # 0
InFlight(u) == loadingPromises[u] # 0 /\ promises[loadingPromises[u]].status = "pending"

\* C9: a request for a cached url returns the cached texture, a request for a
\* url in flight returns the pending promise of the map, and loader.load is
\* never called for a url that is cached or in flight.
C9_NoDuplicateLoad ==
  [][/\ \A i \in Instances : requests'[i] # requests[i] =>
          /\ Cached(RequestedUrl(i)) =>
               /\ awaiting'[i].kind = "resolved"
               /\ awaiting'[i].ref = textureCache[RequestedUrl(i)]
          /\ (~Cached(RequestedUrl(i)) /\ InFlight(RequestedUrl(i))) =>
               /\ awaiting'[i].kind = "promise"
               /\ awaiting'[i].ref = loadingPromises[RequestedUrl(i)]
     /\ \A u \in Urls : (Cached(u) \/ InFlight(u)) =>
          /\ loaderCalls'[u] = loaderCalls[u]
          /\ \A pid \in (Len(promises) + 1) .. Len(promises') : promises'[pid].url # u]_vars

\* two instances were given the same promise while it was in flight, a third
\* one was given the texture from the cache, and the loader was called once
C9_Witness ==
  \E i, j, k \in Instances :
    /\ i # j /\ i # k /\ j # k
    /\ instPhoto[i] = instPhoto[j] /\ instPhoto[j] = instPhoto[k]
    /\ awaiting[i].kind = "promise" /\ awaiting[j].kind = "promise"
    /\ awaiting[i].ref = awaiting[j].ref
    /\ awaiting[k].kind = "resolved" /\ awaiting[k].ref = awaiting[i].ref
    /\ promises[awaiting[i].ref].url = PrimaryUrl(instPhoto[i])
    /\ loaderCalls[PrimaryUrl(instPhoto[i])] = 1

\* C10: a cache entry is written at most once, by the success of the single
\* load of its url, is never replaced or removed, and the write removes the
\* url from the in-flight map: no url is both cached and in the map.
C10_CacheWrittenOnce ==
  [][\A u \in Urls :
       /\ Cached(u) => textureCache'[u] = textureCache[u]
       /\ cacheWrites'[u] <= 1
       /\ textureCache'[u] # 0 => loadingPromises'[u] = 0
       /\ (~Cached(u) /\ textureCache'[u] # 0) =>
            /\ InFlight(u)
            /\ textureCache'[u] = loadingPromises[u]
            /\ promises'[loadingPromises[u]].status = "resolved"
            /\ loaderCalls[u] = 1]_vars

\* a url was cached by its load, left the in-flight map, and was requested
\* again afterwards without another load or cache write
C10_Witness ==
  \E i \in Instances : \E u \in Urls :
    /\ awaiting[i].kind = "resolved" /\ awaiting[i].ref = textureCache[u]
    /\ textureCache[u] # 0 /\ loadingPromises[u] = 0
    /\ cacheWrites[u] = 1 /\ loaderCalls[u] = 1
    /\ promises[textureCache[u]].status = "resolved"

\* ------------------------------------------------ claims on the load chain

Rejected(i) == Settled(awaiting[i]) = "rejected"

\* C11: per photo object, a failed primary load is followed by exactly one
\* fallback request; the failure of the fallback sets loadStatus to 'error';
\* 'loaded' and 'error' are never left; at most two requests are ever issued,
\* the second one only as the fallback of a failed primary load.
C11_FallbackOnceThenError ==
  [][\A i \in Instances :
       /\ requests'[i] <= 2
       /\ loadStatus[i] \in {"loaded", "error"} => loadStatus'[i] = loadStatus[i]
       /\ requests'[i] # requests[i] =>
            \/ /\ requests[i] = 0 /\ requests'[i] = 1
               /\ loadStatus[i] = "pending" /\ loadStatus'[i] = "loading"
               /\ awaiting'[i].stage = "primary"
            \/ /\ requests[i] = 1 /\ requests'[i] = 2
               /\ awaiting[i].stage = "primary" /\ Rejected(i)
               /\ awaiting'[i].stage = "fallback"
               /\ loadStatus'[i] = "loading"
       /\ (awaiting[i].stage = "primary" /\ Rejected(i) /\ awaiting'[i] # awaiting[i]) =>
            requests'[i] = requests[i] + 1
       /\ (awaiting[i].stage = "fallback" /\ Rejected(i) /\ awaiting'[i] # awaiting[i]) =>
            loadStatus'[i] = "error"
       /\ (loadStatus'[i] = "error" /\ loadStatus[i] # "error") =>
            (awaiting[i].stage = "fallback" /\ Rejected(i) /\ requests[i] = 2)]_vars

\* a photo object whose primary and fallback loads both failed: two requests,
\* status 'error', while another object of the run is loaded
C11_Witness ==
  \E i, j \in Instances :
    /\ loadStatus[i] = "error" /\ requests[i] = 2 /\ awaiting[i].stage = "done"
    /\ loadStatus[j] = "loaded"

\* ------------------------------------------------ claims on the morph clocks

FrameStep == ticks' = ticks + 1

\* C13: the progress of the TreeSystem clock and of the CrystalOrnaments clock
\* is in [0, 1] in every reachable state, for any frames with delta >= 0 and
\* any mode switches.
C13_ProgressInUnitInterval ==
  /\ 0 <= progress /\ progress <= ONE
  /\ 0 <= ornProgress /\ ornProgress <= ONE

\* progress has been damped up and is being damped down again after a mode
\* switch, strictly inside the interval
C13_Witness ==
  /\ ticks >= 2 /\ state = "CHAOS" /\ frameDelta = Sixtieth
  /\ 0 < progress /\ progress < ONE
  /\ ornProgress = progress

\* C15: a frame with delta = 0 changes neither progress nor the rotation angle
\* of either clock, in either mode and for any rotationSpeed and rotationBoost.
C15_ZeroDeltaIsIdentity ==
  [][(FrameStep /\ frameDelta' = 0)
     => UNCHANGED <<progress, treeRotation, ornProgress, ornRotation>>]_vars

\* a zero-delta frame was rendered in FORMED mode with a boost, while the
\* clocks were part way and the angles had left 0
C15_Witness ==
  /\ frameDelta = 0 /\ ticks >= 2
  /\ state = "FORMED" /\ rotationBoost # 0
  /\ 0 < progress /\ progress < ONE
  /\ treeRotation # 0 /\ ornRotation # 0

\* C17 as stated: no step makes the rotation angle of either clock smaller.
C17_AngleNeverDecreases ==
  [][treeRotation' >= treeRotation /\ ornRotation' >= ornRotation]_vars

\* C17: the rotation angle of a clock changes only in a frame, by the addition
\* of rate * delta and never by an assignment of 0 or of a wrapped value; it
\* does not decrease in a frame whose rate is not negative (the idle rates are
\* positive; in FORMED mode the tree's rate is rotationSpeed + rotationBoost
\* and the ornaments' rate is rotationSpeed).
C17_AngleAccumulates ==
  [][/\ ~FrameStep => UNCHANGED <<treeRotation, ornRotation>>
     /\ (FrameStep /\ CurrentRotationSpeed >= 0) => treeRotation' >= treeRotation
     /\ (FrameStep /\ SpinFactor >= 0) => ornRotation' >= ornRotation
     /\ (FrameStep /\ frameDelta' = 0) => UNCHANGED <<treeRotation, ornRotation>>
     /\ (FrameStep /\ treeRotation' < treeRotation) =>
          (state = "FORMED" /\ rotationSpeed + rotationBoost < 0)
     /\ (FrameStep /\ ornRotation' < ornRotation) =>
          (state = "FORMED" /\ rotationSpeed < 0)]_vars

\* the angle has grown past a full turn over frames in both modes
C17_Witness ==
  /\ ticks >= 2 /\ state = "FORMED" /\ frameDelta = 40 * ONE
  /\ rotationSpeed + rotationBoost > 0
  /\ treeRotation > 2 * PI + Mul(TREE_IDLE_SPIN, 40 * ONE)
  /\ ornRotation > 2 * PI

\* C18: every frame adds angularRate * delta to the rotation angle of each
\* clock, where angularRate is the clock's idle constant in CHAOS mode and
\* rotationSpeed + rotationBoost in FORMED mode, for the TreeSystem clock and
\* for the CrystalOrnaments clock.
C18_SpinRatePerMode ==
  [][FrameStep =>
       /\ treeRotation' = treeRotation +
            Mul(IF state = "FORMED" THEN rotationSpeed + rotationBoost ELSE TREE_IDLE_SPIN,
                frameDelta')
       /\ ornRotation' = ornRotation +
            Mul(IF state = "FORMED" THEN rotationSpeed + rotationBoost ELSE ORN_IDLE_SPIN,
                frameDelta')]_vars

\* ------------------------------------- claims on the damping of progress

\* the target of the damping, and the distance left to it
Target == IF state = "FORMED" THEN ONE ELSE 0
Distance == IF progress < Target THEN Target - progress ELSE progress - Target
Epsilon == ONE \div 10000

C16_ConvergesWhenFormed ==
  [][(FrameStep /\ state = "FORMED" /\ ticks < HoldFrames) =>
       /\ ticks' >= SettleFrames => ONE - progress' < Epsilon
       /\ ticks' = 300 => progress' > (99 * ONE) \div 100]_vars

\* 300 frames in FORMED mode have been rendered and progress is above 0.99
C16_Witness ==
  /\ state = "FORMED" /\ ticks = 300
  /\ progress > (99 * ONE) \div 100 /\ ONE - progress < Epsilon

\* ----------------------------------------------------- claims on the ease

\* progress after a first frame of length d in FORMED mode
ProbeProgress(d) == Damp(0, ONE, PROGRESS_LAMBDA, d)

C12_FrameWritesEveryMountedPhoto ==
  [][FrameStep =>
       \A i \in PhotoIdx :
         (i \in refCurrent /\ \E k \in 1 .. Len(photoObjects) : photoObjects[k] = i) =>
           photoXform'[i] = PhotoTransform(photosData[i], ease', treeRotation')]_vars

\* frames have been rendered while one photo was loaded, one was loading and
\* one had failed, and every photo is where the last frame put it
C12_Witness ==
  /\ ticks >= 2
  /\ \E l, m, n \in Instances :
       /\ loadStatus[l] = "error" /\ loadStatus[m] = "loading" /\ loadStatus[n] = "loaded"
       /\ instPhoto[l] # instPhoto[n]
  /\ \A i \in PhotoIdx :
       /\ photoXform[i] = PhotoTransform(photosData[i], ease, treeRotation)
       /\ photoXform[i].position # Point(0, 0, 0)

\* the tree-side target of an object: tree radius, tree azimuth plus the
\* rotation angle, tree height
TreeTarget(cyl, rot) ==
  Point(Mul(cyl.r, Cos[cyl.angle + rot]), cyl.h, Mul(cyl.r, Sin[cyl.angle + rot]))

\* the rotated chaos-side position of an object: chaos radius, chaos azimuth
\* plus the rotation angle times the co-rotation factor, chaos height
ChaosRotated(c, rot, k) ==
  LET cc == Cylindrical(c)
  IN Point(Mul(cc.r, Cos[cc.angle + Mul(rot, k.coRotation)]), c.y,
           Mul(cc.r, Sin[cc.angle + Mul(rot, k.coRotation)]))

MountedPhotos == {i \in refCurrent : \E k \in 1 .. Len(photoObjects) : photoObjects[k] = i}

\* C20: a frame whose ease is 1 puts every foliage point, light, mounted photo
\* and ornament at its tree-side target, a function of the tree point and the
\* rotation angle only; a frame whose ease is 0 puts it at its rotated
\* chaos-side position, a function of the chaos point and the rotation angle
\* only.
C20_BlendEndpoints ==
  [][FrameStep =>
       /\ ease' = ONE =>
            /\ \A k \in ParticleIdx :
                 positions'[k] = TreeTarget(Cylindrical(foliageData.tree[k]), treeRotation')
            /\ \A k \in LightIdx :
                 lightPos'[k] = TreeTarget(Cylindrical(lightsData.tree[k]), treeRotation')
            /\ \A i \in MountedPhotos :
                 photoXform'[i].position =
                   TreeTarget(Cylindrical(photosData[i].treePos), treeRotation')
       /\ ornEase' = ONE =>
            \A k \in OrnamentIdx : ornPos'[k] = TreeTarget(ornaments[k].treeCyl, ornRotation')
       /\ ease' = 0 =>
            /\ \A k \in ParticleIdx :
                 positions'[k] = ChaosRotated(foliageData.chaos[k], treeRotation', FOLIAGE_BLEND)
            /\ \A k \in LightIdx :
                 lightPos'[k] = ChaosRotated(lightsData.chaos[k], treeRotation', LIGHT_BLEND)
            /\ \A i \in MountedPhotos :
                 photoXform'[i].position =
                   ChaosRotated(photosData[i].chaosPos, treeRotation', PHOTO_BLEND)
       /\ ornEase' = 0 =>
            \A k \in OrnamentIdx :
              ornPos'[k] = ChaosRotated(ornaments[k].chaosPos, ornRotation', ORNAMENT_BLEND)]_vars

\* a frame at ease 1 after the angle has grown, with the photos mounted and at
\* their tree-side targets
C20_Witness ==
  /\ ticks >= 2 /\ ease = ONE /\ ornEase = ONE /\ treeRotation > ONE
  /\ MountedPhotos = PhotoIdx
  /\ \A i \in PhotoIdx :
       photoXform[i].position = TreeTarget(Cylindrical(photosData[i].treePos), treeRotation)
  /\ \E i \in PhotoIdx : photoXform[i].position # photosData[i].treePos

\* ------------------------------------------------- claims on the round trip

\* the stored tree points of the TreeSystem populations, each with the blend
\* constants of its population
TreeInputs ==
  {<<foliageData.tree[k], FOLIAGE_BLEND>> : k \in ParticleIdx}
    \cup {<<lightsData.tree[k], LIGHT_BLEND>> : k \in LightIdx}
    \cup {<<photosData[i].treePos, PHOTO_BLEND>> : i \in PhotoIdx}

\* the polar blend of a tree point with itself at ease 1 and the rotation
\* angle of the state
RoundTrip(in) ==
  PolarBlend(in[1], cylinders[in[1]], cylinders[in[1]], ONE, treeRotation, in[2])

Near(p, q) ==
  /\ Abs(p.x - q.x) <= PolarRounding
  /\ Abs(p.y - q.y) <= PolarRounding
  /\ Abs(p.z - q.z) <= PolarRounding

\* C21 as stated: the round trip returns the stored tree point exactly, with
\* the rotation angle of any reachable state.
C21_FixedPoint == \A in \in TreeInputs : RoundTrip(in) = in[1]

\* C21: the round trip returns the stored tree point turned about the vertical
\* axis by the rotation angle: its height is the stored height exactly, its
\* horizontal part is the stored radius at the stored azimuth plus the rotation
\* angle, and while the rotation angle is 0 it is the stored point up to the
\* rounding of the square root, the arc tangent, the cosine and the sine.
C21_TurnedTreePoint ==
  \A in \in TreeInputs :
    /\ RoundTrip(in) = TreeTarget(cylinders[in[1]], treeRotation)
    /\ RoundTrip(in).y = in[1].y
    /\ treeRotation = 0 => Near(RoundTrip(in), in[1])

\* frames have turned the tree, and the round trip of a stored tree point is
\* away from that point
C21_Witness ==
  /\ ticks >= 1 /\ treeRotation > 0
  /\ \E in \in TreeInputs : ~Near(RoundTrip(in), in[1])

\* ---------------------------------------------------- claims on the layouts

\* C22: in every state, the chaos layout and the tree layout of the foliage,
\* of the lights, of the photos and of the ornaments have one point per index
\* of the population, and the number of indices is the population's count.
C22_LayoutsHaveCount ==
  /\ DOMAIN foliageData.chaos = ParticleIdx /\ DOMAIN foliageData.tree = ParticleIdx
  /\ Cardinality(DOMAIN foliageData.tree) = NumParticles
  /\ DOMAIN lightsData.chaos = LightIdx /\ DOMAIN lightsData.tree = LightIdx
  /\ Cardinality(DOMAIN lightsData.tree) = lightsData.count
  /\ lightsData.count = NumLights
  /\ DOMAIN photosData = PhotoIdx /\ Cardinality(DOMAIN photosData) = NumPhotos
  /\ \A i \in PhotoIdx : {"chaosPos", "treePos"} \subseteq DOMAIN photosData[i]
  /\ DOMAIN ornaments = OrnamentIdx /\ Cardinality(DOMAIN ornaments) = NumOrnaments
  /\ \A k \in OrnamentIdx : {"chaosPos", "treeCyl"} \subseteq DOMAIN ornaments[k]

\* frames have been rendered in both modes over populations that are not empty
C22_Witness ==
  /\ ticks >= 2 /\ state = "CHAOS" /\ progress > 0
  /\ DOMAIN lightsData.chaos # {} /\ DOMAIN photosData # {}
  /\ DOMAIN foliageData.chaos # {} /\ DOMAIN ornaments # {}

\* C23: no step changes the chaos layout, the tree layout or the rotation
\* hints of any population: the layouts of every state are the generated ones.
C23_LayoutsNeverChange ==
  [][/\ foliageData' = foliageData /\ lightsData' = lightsData
     /\ photosData' = photosData /\ ornaments' = ornaments]_vars

\* frames have moved every population and a trigger has selected a photo
C23_Witness ==
  /\ ticks >= 2 /\ clickTrigger >= 1 /\ selectedPhotoUrl # Null
  /\ \E rnd \in Randoms :
       /\ foliageData = Layouts[rnd].foliage /\ lightsData = Layouts[rnd].lights
       /\ photosData = Layouts[rnd].photos /\ ornaments = Layouts[rnd].ornaments
  /\ \A k \in ParticleIdx : positions[k] # Point(0, 0, 0)
  /\ \A i \in PhotoIdx : photoXform[i].position # Point(0, 0, 0)

\* ------------------------------------------------ claims on empty populations

Empty(f) == DOMAIN f = {}

\* C24: the generation with a count of 0 gives a chaos layout and a tree layout
\* with no point; in every state a population without points has no output,
\* no photo object is mounted or selected when there is no photo, and the
\* frame and the click effect can be taken whenever they are due.
C24_EmptyPopulations ==
  /\ \A rnd \in Randoms :
       LET l == GenLayout(ZeroCounts, rnd)
       IN /\ Empty(l.foliage.chaos) /\ Empty(l.foliage.tree)
          /\ Empty(l.lights.chaos) /\ Empty(l.lights.tree) /\ l.lights.count = 0
          /\ Empty(l.photos) /\ Empty(l.ornaments)
  /\ Empty(foliageData.tree) => Empty(positions)
  /\ lightsData.count = 0 => Empty(lightPos)
  /\ Empty(photosData) =>
       /\ Empty(photoXform) /\ Empty(photoObjects)
       /\ refCurrent = {} /\ selectedPhotoUrl = Null
  /\ Empty(ornaments) => Empty(ornPos)
  /\ (Quiescent /\ ticks < MaxTicks) => ENABLED LayoutTick
  /\ "TreeSystem" \in effects => ENABLED TreeSystemClickEffect

\* every population is empty; frames have been rendered in FORMED mode and a
\* trigger with a pointer has been handled
C24_Witness ==
  /\ Empty(foliageData.chaos) /\ Empty(lightsData.chaos)
  /\ Empty(photosData) /\ Empty(ornaments)
  /\ ticks >= 2 /\ state = "FORMED" /\ progress > 0
  /\ clickTrigger >= 1 /\ pointer # Null /\ Quiescent

\* ---- claims on the order of a frame ----

\* the positions the TreeSystem frame writes at ease e and rotation rot, as
\* read in the state after the frame
WrittenAt(e, rot) ==
  /\ \A k \in DOMAIN positions' :
       positions'[k] = PolarBlend(foliageData.chaos[k], cylinders[foliageData.chaos[k]],
                                  cylinders[foliageData.tree[k]], e, rot, FOLIAGE_BLEND)
  /\ \A k \in DOMAIN lightPos' :
       lightPos'[k] = PolarBlend(lightsData.chaos[k], cylinders[lightsData.chaos[k]],
                                 cylinders[lightsData.tree[k]], e, rot, LIGHT_BLEND)
  /\ \A i \in MountedPhotos : photoXform'[i] = PhotoTransform(photosData[i], e, rot)
  /\ trunk' = TrunkTransform(e, rot)

\* C25: in one frame the TreeSystem clock is advanced once by the frame's
\* delta (progress damped once, the rotation angle spun once), the ease is
\* recomputed from the advanced progress, and the foliage, the lights, the
\* trunk and every mounted photo are all written from that one ease and that
\* one rotation angle; the ornament clock is advanced once as well
C25_AdvanceOnceThenBlend ==
  [][FrameStep =>
       /\ progress' = Damp(progress, TargetProgress, PROGRESS_LAMBDA, frameDelta')
       /\ ease' = Ease(progress')
       /\ treeRotation' = Spin(treeRotation, CurrentRotationSpeed, frameDelta')
       /\ WrittenAt(ease', treeRotation')
       /\ ornProgress' = Damp(ornProgress, TargetProgress, PROGRESS_LAMBDA, frameDelta')
       /\ ornEase' = Ease(ornProgress')
       /\ ornRotation' = Spin(ornRotation, SpinFactor, frameDelta')]_vars

\* a second or later frame of a forming tree, with the trunk and a mounted
\* photo written at the ease and the angle of this frame
C25_Witness ==
  /\ ticks >= 2
  /\ frameDelta = Sixtieth
  /\ state = "FORMED"
  /\ 0 < ease /\ ease < ONE
  /\ treeRotation > Mul(CurrentRotationSpeed, Sixtieth)
  /\ trunk = TrunkTransform(ease, treeRotation)
  /\ \E i \in MountedPhotos : photoXform[i] = PhotoTransform(photosData[i], ease, treeRotation)

\* ---- claims on the photo spiral ----

PhotoCount == Cardinality(DOMAIN photosData)

\* the distance from the axis the frame computes from the stored tree point of
\* photo i: tr = sqrt(tx * tx + tz * tz)
StoredTreeRadius(i) == cylinders[photosData[i].treePos].r

\* C26: in the photo spiral the stored distance from the axis does not grow
\* with the index (the height grows with the index), and the radius the
\* generator computes for a photo is never negative
C26_PhotoRadiusShrinks ==
  /\ \A i, j \in DOMAIN photosData :
       i < j => /\ photosData[i].treePos.y < photosData[j].treePos.y
                /\ StoredTreeRadius(j) <= StoredTreeRadius(i)
  /\ \A i \in DOMAIN photosData : PhotoSpiral(i, PhotoCount).radius >= 0

\* ---- claims on the blend constants ----

\* a is stronger than b in both constants of the blend
Stronger(a, b) == a.vortex > b.vortex /\ a.coRotation > b.coRotation

\* C27: the vortex strength and the co-rotation factor the frames apply are
\* both strictly ordered, whatever the number of frames that have run:
\* particles above lights above ornaments above photos
C27_BlendConstantsOrdered ==
  ticks >= 0 =>
    /\ Stronger(FOLIAGE_BLEND, LIGHT_BLEND)
    /\ Stronger(LIGHT_BLEND, ORNAMENT_BLEND)
    /\ Stronger(ORNAMENT_BLEND, PHOTO_BLEND)

\* ---- claims on failed loads ----

\* the load of url u has failed: the promise of u in the in-flight map is rejected
Failed(u) == loadingPromises[u] # 0 /\ promises[loadingPromises[u]].status = "rejected"

\* C28: a rejected promise stays in the in-flight map for good and its url is
\* never cached; a request for a url that has failed is given that rejected
\* promise and calls the loader for nothing; the loader is called at most once
\* for any url
C28_FailedUrlNeverRefetched ==
  [][/\ \A pid \in 1 .. Len(promises') :
          promises'[pid].status = "rejected" =>
            /\ loadingPromises'[promises'[pid].url] = pid
            /\ textureCache'[promises'[pid].url] = 0
     /\ \A u \in Urls : Failed(u) =>
          /\ loadingPromises'[u] = loadingPromises[u]
          /\ promises'[loadingPromises[u]] = promises[loadingPromises[u]]
          /\ loaderCalls'[u] = loaderCalls[u]
     /\ \A i \in Instances : (requests'[i] # requests[i] /\ Failed(RequestedUrl(i))) =>
          /\ awaiting'[i].kind = "promise"
          /\ awaiting'[i].ref = loadingPromises[RequestedUrl(i)]
          /\ Len(promises') = Len(promises)
     /\ \A u \in Urls : loaderCalls'[u] <= 1]_vars

\* the primary url of a photo has failed with one loader call, an instance of
\* the photo holds the rejected promise, and another instance of the same
\* photo is about to request that url
C28_Witness ==
  \E i, j \in Instances :
    /\ i # j /\ instPhoto[i] = instPhoto[j]
    /\ Failed(PrimaryUrl(instPhoto[i]))
    /\ loaderCalls[PrimaryUrl(instPhoto[i])] = 1
    /\ awaiting[i].kind = "promise"
    /\ awaiting[i].ref = loadingPromises[PrimaryUrl(instPhoto[i])]
    /\ loadStatus[j] = "pending"
    /\ ENABLED PolaroidLoadEffect(j)

\* ---- claims on progressive loading ----

\* shouldLoad of the photo object at index k: index < loadedCount
AllowedToLoad(k) == k < loadedCount

\* C29: loadedCount starts at 0, no step makes it smaller or adds more than
\* the batch of two, it never exceeds the number of photo objects, and with the
\* callbacks running it ends up equal to the number of photos for good; a
\* photo allowed to load stays allowed, and whenever a photo is allowed every
\* photo of a smaller index is allowed
C29_ProgressiveLoading ==
  /\ loadedCount = 0
  /\ [][/\ loadedCount <= loadedCount'
        /\ loadedCount' <= loadedCount + LOAD_BATCH
        /\ \A k \in DOMAIN photosData : AllowedToLoad(k) => AllowedToLoad(k)']_vars
  /\ [](/\ loadedCount <= Len(photoObjects)
        /\ \A i, j \in DOMAIN photosData : (i < j /\ AllowedToLoad(j)) => AllowedToLoad(i))
  /\ <>[](Len(photoObjects) = PhotoCount /\ loadedCount = PhotoCount)

\* an odd number of photos, all of them allowed to load: the last step was
\* cut to one photo
C29_Witness ==
  /\ PhotoCount % LOAD_BATCH = 1
  /\ Len(photoObjects) = PhotoCount
  /\ loadedCount = PhotoCount
  /\ \A k \in DOMAIN photosData : AllowedToLoad(k)

\* ---- claims on the two clocks ----

\* C30: after every frame the progress, the ease and the damped pan offset of
\* the ornaments equal those of the tree system, whatever the mode switches,
\* the pan targets and the deltas of the frames
C30_ClocksInLockstep ==
  /\ ornProgress = progress
  /\ ornEase = ease
  /\ ornPan = currentPan

\* after a frame of a forming, panned tree: progress and both pan coordinates
\* are on their way, the same in both components
C30_Witness ==
  /\ ticks >= 2
  /\ frameDelta = Sixtieth
  /\ 0 < progress /\ progress < ONE /\ ornProgress = progress
  /\ panOffset.x # 0 /\ panOffset.y # 0
  /\ currentPan.x # 0 /\ currentPan.x # panOffset.x
  /\ currentPan.y # 0 /\ currentPan.y # panOffset.y
  /\ ornPan = currentPan

====
